---- MODULE Spec2Model ----
(***************************************************************************)
(* A model of src/main.py, the social-media downloader API.                *)
(*                                                                         *)
(* Every request is one cooperative task on a single event loop.  A        *)
(* handler is cut into the segments between its suspension points (the     *)
(* awaited httpx fetches) and around its blocking engine call (the         *)
(* synchronous yt_dlp extract_info, during which the event loop is held).  *)
(* The extraction engine, the fetched pages and the transport that         *)
(* consumes a StreamingResponse are the environment: their outcomes are    *)
(* drawn from small sets.  Strings that the code inspects (URLs, error     *)
(* messages, titles) are sequences of one-character strings, so that       *)
(* lower(), "in" and the character filter are computed as the code does.   *)
(***************************************************************************)
EXTENDS Integers, Sequences, FiniteSets, TLC

\* ------------------------------------------------------------------ bounds

\* Longest list of formats the engine reports in the format-ranking runs.
MaxFormats == 3
\* Greatest height a reported format carries in the format-ranking runs.
MaxHeight == 2
\* Most segments (hostname markers, other text) a URL of the
\* platform-detection runs is put together from.
MaxSegments == 2
\* Most calls of cleanup_temp_files on one workspace in the cleanup runs.
MaxCleanups == 2
\* Longest list of formats the engine reports in the candidate-cap runs.
MaxReported == 12
\* Candidates kept in the metadata response (formats[:10]).
MaxCandidates == 10
\* Bytes per read of the file streamer (f.read(8192)).
ChunkSize == 8192

\* ----------------------------------------------------------------- strings

LowerCase ==
    ("A" :> "a") @@ ("B" :> "b") @@ ("C" :> "c") @@ ("D" :> "d") @@ ("E" :> "e") @@
    ("F" :> "f") @@ ("G" :> "g") @@ ("H" :> "h") @@ ("I" :> "i") @@ ("J" :> "j") @@
    ("K" :> "k") @@ ("L" :> "l") @@ ("M" :> "m") @@ ("N" :> "n") @@ ("O" :> "o") @@
    ("P" :> "p") @@ ("Q" :> "q") @@ ("R" :> "r") @@ ("S" :> "s") @@ ("T" :> "t") @@
    ("U" :> "u") @@ ("V" :> "v") @@ ("W" :> "w") @@ ("X" :> "x") @@ ("Y" :> "y") @@
    ("Z" :> "z")

\* str.lower()
Lower(s) ==
    [i \in 1..Len(s) |-> IF s[i] \in DOMAIN LowerCase THEN LowerCase[s[i]] ELSE s[i]]

\* sub in s
Contains(s, sub) ==
    \E i \in 1..(Len(s) - Len(sub) + 1) : SubSeq(s, i, i + Len(sub) - 1) = sub

\* The hostname markers of detect_platform.
M_youtube_com == <<"y", "o", "u", "t", "u", "b", "e", ".", "c", "o", "m">>
M_youtu_be == <<"y", "o", "u", "t", "u", ".", "b", "e">>
M_tiktok_com == <<"t", "i", "k", "t", "o", "k", ".", "c", "o", "m">>
M_instagram_com == <<"i", "n", "s", "t", "a", "g", "r", "a", "m", ".", "c", "o", "m">>
M_facebook_com == <<"f", "a", "c", "e", "b", "o", "o", "k", ".", "c", "o", "m">>
M_fb_watch == <<"f", "b", ".", "w", "a", "t", "c", "h">>
M_twitter_com == <<"t", "w", "i", "t", "t", "e", "r", ".", "c", "o", "m">>
M_x_com == <<"x", ".", "c", "o", "m">>
M_linkedin_com == <<"l", "i", "n", "k", "e", "d", "i", "n", ".", "c", "o", "m">>

\* The substrings the error classifiers look for.
S_403 == <<"4", "0", "3">>
S_Forbidden == <<"F", "o", "r", "b", "i", "d", "d", "e", "n">>
S_forbidden == <<"f", "o", "r", "b", "i", "d", "d", "e", "n">>
S_404 == <<"4", "0", "4">>
S_not_found == <<"n", "o", "t", " ", "f", "o", "u", "n", "d">>
S_timeout == <<"t", "i", "m", "e", "o", "u", "t">>

\* ------------------------------------------------------- platform detection

Platforms ==
    {"youtube", "tiktok", "instagram", "facebook", "twitter", "linkedin", "unknown"}

\* detect_platform without url.lower(): the markers are looked for in the
\* URL as it was given.
detect_platform_exact_case(url) ==
    IF Contains(url, M_youtube_com) \/ Contains(url, M_youtu_be) THEN "youtube"
    ELSE IF Contains(url, M_tiktok_com) THEN "tiktok"
    ELSE IF Contains(url, M_instagram_com) THEN "instagram"
    ELSE IF Contains(url, M_facebook_com) \/ Contains(url, M_fb_watch) THEN "facebook"
    ELSE IF Contains(url, M_twitter_com) \/ Contains(url, M_x_com) THEN "twitter"
    ELSE IF Contains(url, M_linkedin_com) THEN "linkedin"
    ELSE "unknown"

detect_platform(url) ==
    LET url_lower == Lower(url) IN
    IF Contains(url_lower, M_youtube_com) \/ Contains(url_lower, M_youtu_be)
    THEN "youtube"
    ELSE IF Contains(url_lower, M_tiktok_com) THEN "tiktok"
    ELSE IF Contains(url_lower, M_instagram_com) THEN "instagram"
    ELSE IF Contains(url_lower, M_facebook_com) \/ Contains(url_lower, M_fb_watch)
    THEN "facebook"
    ELSE IF Contains(url_lower, M_twitter_com) \/ Contains(url_lower, M_x_com)
    THEN "twitter"
    ELSE IF Contains(url_lower, M_linkedin_com) THEN "linkedin"
    ELSE "unknown"

\* The URLs of the requests: one per marker family, one in upper case, one
\* that carries no marker.
RequestUrls ==
    { <<"y", "o", "u", "t", "u", "b", "e", ".", "c", "o", "m">>,
      <<"Y", "O", "U", "T", "U", ".", "B", "E">>,
      <<"t", "i", "k", "t", "o", "k", ".", "c", "o", "m">>,
      <<"i", "n", "s", "t", "a", "g", "r", "a", "m", ".", "c", "o", "m">>,
      <<"f", "b", ".", "w", "a", "t", "c", "h">>,
      <<"x", ".", "c", "o", "m">>,
      <<"l", "i", "n", "k", "e", "d", "i", "n", ".", "c", "o", "m">>,
      <<"e", "x", "a", "m", "p", "l", "e", ".", "c", "o", "m">> }

\* ------------------------------------------------------------ HTTP errors

NoText == <<>>

\* An error response: the status, the fixed part of the detail and the raw
\* exception text interpolated into the detail (NoText when none is).
HTTPException(status_code, detail, raw) ==
    [status |-> status_code, detail |-> detail, raw |-> raw]

NoResponse == [status |-> 0, detail |-> "", raw |-> NoText]

\* A successful response (a MediaInfo body or a StreamingResponse).
OkResponse == [status |-> 200, detail |-> "", raw |-> NoText]

\* get_ytdlp_info, except yt_dlp.utils.DownloadError
ytdlp_info_download_error(error_msg) ==
    IF Contains(error_msg, S_403) \/ Contains(error_msg, S_Forbidden)
    THEN HTTPException(403, "Access denied - content may be private or geo-blocked", NoText)
    ELSE IF Contains(error_msg, S_404) \/ Contains(Lower(error_msg), S_not_found)
    THEN HTTPException(404, "Content not found - URL may be invalid", NoText)
    ELSE IF Contains(Lower(error_msg), S_timeout)
    THEN HTTPException(408, "Request timeout - please try again", NoText)
    ELSE HTTPException(400, "Failed to extract info: ", error_msg)

\* download_media_streaming, except yt_dlp.utils.DownloadError
download_media_download_error(error_msg) ==
    IF Contains(error_msg, S_403) \/ Contains(error_msg, S_Forbidden)
    THEN HTTPException(403, "Access denied - content may be private or geo-blocked", NoText)
    ELSE IF Contains(Lower(error_msg), S_timeout)
    THEN HTTPException(408, "Download timeout - please try again", NoText)
    ELSE HTTPException(400, "Download failed: ", error_msg)

\* An exception no route handler caught, with no application-wide handler
\* to answer it: the request ends without a response.
unhandled_exception(error_msg) == NoResponse

\* The application-wide handler of the exceptions no route handler caught.
global_exception_handler(error_msg) ==
    IF Contains(Lower(error_msg), S_timeout)
    THEN HTTPException(408, "Download timeout - please try again", NoText)
    ELSE IF Contains(error_msg, S_403) \/ Contains(Lower(error_msg), S_forbidden)
    THEN HTTPException(403, "Access denied - content may be private or geo-blocked", NoText)
    ELSE IF Contains(error_msg, S_404) \/ Contains(Lower(error_msg), S_not_found)
    THEN HTTPException(404, "Content not found - URL may be invalid", NoText)
    ELSE HTTPException(500, "Server error: ", error_msg)

\* ------------------------------------------------------------------ titles

Digits == {"0", "1", "2", "3", "4", "5", "6", "7", "8", "9"}

\* c.isalnum(), on the characters the model uses
isalnum(c) == c \in DOMAIN LowerCase \/ c \in {LowerCase[u] : u \in DOMAIN LowerCase} \/ c \in Digits

RECURSIVE lstrip(_)
lstrip(s) == IF s # <<>> /\ Head(s) = " " THEN lstrip(Tail(s)) ELSE s

RECURSIVE rstrip(_)
rstrip(s) == IF s # <<>> /\ s[Len(s)] = " " THEN rstrip(SubSeq(s, 1, Len(s) - 1)) ELSE s

\* str.strip()
strip(s) == rstrip(lstrip(s))

KeepChar(c) == isalnum(c) \/ c \in {" ", "-", "_"}

\* "".join(c for c in title if c.isalnum() or c in (' ', '-', '_')).strip()
sanitize_title(title) == strip(SelectSeq(title, KeepChar))

\* The value of info.get('title', default) when the engine's info has no title.
MissingTitle == <<"<missing>">>

downloaded_video ==
    <<"d", "o", "w", "n", "l", "o", "a", "d", "e", "d", "_", "v", "i", "d", "e", "o">>
downloaded_photo ==
    <<"d", "o", "w", "n", "l", "o", "a", "d", "e", "d", "_", "p", "h", "o", "t", "o">>

\* info.get('title', default), then the character filter
response_title(info_title, default) ==
    sanitize_title(IF info_title = MissingTitle THEN default ELSE info_title)

\* The titles the engine reports.
EngineTitles == { <<"a", "/", "b">>, <<" ", "?", " ">>, MissingTitle }

\* -------------------------------------------------------------- filesystem

video == <<"v", "i", "d", "e", "o">>
photo == <<"p", "h", "o", "t", "o">>

\* os.path.splitext(name)[1][1:] : the text after the last dot, '' without one
RECURSIVE splitext_ext(_)
splitext_ext(name) ==
    IF name = <<>> THEN <<>>
    ELSE IF \A i \in 1..Len(name) : name[i] # "." THEN <<>>
    ELSE IF Head(name) = "." /\ (\A i \in 2..Len(name) : name[i] # ".")
         THEN Tail(name)
    ELSE splitext_ext(Tail(name))

\* glob.glob(os.path.join(temp_dir, prefix + '*')): the files whose name
\* begins with the prefix
glob(files, prefix) ==
    {f \in files : Len(f.name) >= Len(prefix) /\ SubSeq(f.name, 1, Len(prefix)) = prefix}

NoDir == "none"
DirNames == {"tmpA", "tmpB"}

AbsentDir == [exists |-> FALSE, files |-> {}]
EmptyDir == [exists |-> TRUE, files |-> {}]

\* glob.glob(os.path.join(temp_dir, '*')): every entry but those whose name
\* begins with a dot
glob_all(files) == {f \in files : Head(f.name) # "."}

\* What is left of the directory's entries after the loop of os.unlink over
\* glob('*'): the entries not listed and those whose unlink raises.
after_unlinks(files) == {f \in files : f \notin glob_all(files) \/ ~f.deletable}

\* cleanup_temp_files: unlink what glob('*') lists, each failure swallowed,
\* then rmdir, whose failure (missing or non-empty directory) is swallowed.
cleanup_temp_files(fsys, temp_dir) ==
    IF ~fsys[temp_dir].exists THEN fsys
    ELSE LET left == after_unlinks(fsys[temp_dir].files) IN
         IF left = {} THEN [fsys EXCEPT ![temp_dir] = AbsentDir]
         ELSE [fsys EXCEPT ![temp_dir] = [exists |-> TRUE, files |-> left]]

\* The exception classes `except Exception` catches, of which os.unlink and
\* os.rmdir raise.
Exception == {"FileNotFoundError", "PermissionError", "OSError"}

\* What leaves the try body of cleanup_temp_files: the exceptions of the
\* unlinks are caught inside the loop, the one of os.rmdir (a directory that
\* is missing or not empty) is not.
cleanup_body_raises(fsys, temp_dir) ==
    IF ~fsys[temp_dir].exists THEN {"FileNotFoundError"}
    ELSE IF after_unlinks(fsys[temp_dir].files) # {} THEN {"OSError"}
    ELSE {}

\* cleanup_temp_files without its outer try: the exception of os.rmdir
\* reaches the caller.
cleanup_raises_unguarded(fsys, temp_dir) == cleanup_body_raises(fsys, temp_dir) # {}

\* cleanup_temp_files raises to its caller what its outer `except Exception`
\* does not catch.
cleanup_raises(fsys, temp_dir) == cleanup_body_raises(fsys, temp_dir) \ Exception # {}

\* open(path, 'wb') with write: the file is created or replaced
write_file(fsys, temp_dir, file) ==
    [fsys EXCEPT ![temp_dir].files =
        {f \in @ : f.name # file.name} \cup {file}]

\* The engine's materialization writes (or replaces) its output files.
RECURSIVE write_files(_, _, _)
write_files(fsys, temp_dir, files) ==
    IF files = {} THEN fsys
    ELSE LET f == CHOOSE x \in files : TRUE IN
         write_files(write_file(fsys, temp_dir, f), temp_dir, files \ {f})

\* The extensions the handlers and the image fetch name.
S_mp4 == <<"m", "p", "4">>
S_jpg == <<"j", "p", "g">>
S_png == <<"p", "n", "g">>
S_webp == <<"w", "e", "b", "p">>

\* ------------------------------------------------------- format ranking

\* A format's 'height' when the engine reports none (None).
NoHeight == -1

\* x.get('height', 0) if x.get('height') else 0
height_key(x) == IF x.height = NoHeight \/ x.height = 0 THEN 0 ELSE x.height

\* The kept fields of a reported format (the others are copied alike).
format_entry(f) == [format_id |-> f.format_id, ext |-> f.ext, height |-> f.height]

\* The loop over info['formats'] without its test of vcodec.
RECURSIVE unfiltered_formats(_)
unfiltered_formats(fs) ==
    IF fs = <<>> THEN <<>>
    ELSE <<format_entry(Head(fs))>> \o unfiltered_formats(Tail(fs))

\* for f in info['formats']: if f.get('vcodec') != 'none': formats.append(...)
RECURSIVE video_formats(_)
video_formats(fs) ==
    IF fs = <<>> THEN <<>>
    ELSE IF Head(fs).vcodec # "none"
         THEN <<format_entry(Head(fs))>> \o video_formats(Tail(fs))
         ELSE video_formats(Tail(fs))

\* insert_desc with the comparison strict: x overtakes the elements of its
\* own key, so equal keys come out in reverse order.
RECURSIVE insert_desc_unstable(_, _)
insert_desc_unstable(sorted, x) ==
    IF sorted = <<>> THEN <<x>>
    ELSE IF height_key(Head(sorted)) > height_key(x)
         THEN <<Head(sorted)>> \o insert_desc_unstable(Tail(sorted), x)
         ELSE <<x>> \o sorted

\* One step of a stable descending sort: x goes after every element whose
\* key is at least its own.
RECURSIVE insert_desc(_, _)
insert_desc(sorted, x) ==
    IF sorted = <<>> THEN <<x>>
    ELSE IF height_key(Head(sorted)) >= height_key(x)
         THEN <<Head(sorted)>> \o insert_desc(Tail(sorted), x)
         ELSE <<x>> \o sorted

\* formats.sort(key=..., reverse=True): descending, equal keys in their
\* original order
RECURSIVE sort_formats(_)
sort_formats(fs) ==
    IF fs = <<>> THEN <<>>
    ELSE insert_desc(sort_formats(SubSeq(fs, 1, Len(fs) - 1)), fs[Len(fs)])

\* formats[:10]
cap_formats(fs) == SubSeq(fs, 1, IF Len(fs) < MaxCandidates THEN Len(fs) ELSE MaxCandidates)

\* ytdlp_formats with the slice taken before the sort: the first ten reported
\* video formats, then ranked.
ytdlp_formats_cap_first(info_formats) ==
    sort_formats(cap_formats(video_formats(info_formats)))

\* The 'formats' of get_ytdlp_info's result.
ytdlp_formats(info_formats) == cap_formats(sort_formats(video_formats(info_formats)))

\* ------------------------------------------------------------ environment

\* The messages of the exceptions the engine raises.
ErrorMessages ==
    { <<"H", "T", "T", "P", " ", "E", "r", "r", "o", "r", " ", "4", "0", "3">>,
      <<"f", "o", "r", "b", "i", "d", "d", "e", "n">>,
      <<"H", "T", "T", "P", " ", "E", "r", "r", "o", "r", " ", "4", "0", "4">>,
      <<"N", "o", "t", " ", "F", "o", "u", "n", "d">>,
      <<"T", "i", "m", "e", "o", "u", "t">>,
      <<"4", "0", "4", " ", "t", "i", "m", "e", "o", "u", "t">>,
      <<"b", "o", "o", "m">>,
      <<"o", "o", "p", "s">> }

\* The messages of the exceptions the HTTP client raises.
ClientMessages ==
    { <<"T", "i", "m", "e", "o", "u", "t">>,
      <<"b", "o", "o", "m">>,
      <<"o", "o", "p", "s">> }

\* str(e) of the HTTPException(400, "No file was downloaded") raised at the
\* locate step.
NoFileText ==
    <<"4", "0", "0", ":", " ", "N", "o", " ", "f", "i", "l", "e", " ", "w", "a", "s", " ",
      "d", "o", "w", "n", "l", "o", "a", "d", "e", "d">>

\* str(e) of the TypeError of subscripting None (og_image['content']).
NoneTypeText ==
    <<"'", "N", "o", "n", "e", "T", "y", "p", "e", "'", " ", "o", "b", "j", "e", "c", "t", " ",
      "i", "s", " ", "n", "o", "t", " ", "s", "u", "b", "s", "c", "r", "i", "p", "t", "a", "b",
      "l", "e">>

\* str(e) of the ValidationError of MediaInfo(title=None), its first line.
ValidationErrorText ==
    <<"1", " ", "v", "a", "l", "i", "d", "a", "t", "i", "o", "n", " ", "e", "r", "r", "o", "r",
      " ", "f", "o", "r", " ", "M", "e", "d", "i", "a", "I", "n", "f", "o">>

\* The sizes of the files the engine and the image fetch write.
FileSizes == {0, 1, ChunkSize, ChunkSize + 1}

File(name, size) == [name |-> name, size |-> size, deletable |-> TRUE]

DotMp4 == <<".", "m", "p", "4">>
DotJpg == <<".", "j", "p", "g">>
DotPart == <<".", "p", "a", "r", "t">>

\* What a materialization leaves in the workspace: files named from the
\* output template (outtmpl), the engine choosing the extension.
EngineWrites(base, dot_ext) ==
    LET names == {base, base \o dot_ext}
        files == {File(n, z) : n \in names, z \in FileSizes}
    IN  {w \in SUBSET files :
            /\ Cardinality(w) <= 2
            /\ \A f, g \in w : f.name = g.name => f = g}

\* What a failed materialization leaves: nothing, or a partial file.
PartialWrites(base) == {{}, {File(base \o DotMp4 \o DotPart, 1)}}

\* How the engine call of a request ended, and str(e) of what it raised.
EngineEnd(o) == [kind |-> o.kind, msg |-> o.msg]

NoError == [kind |-> "none", msg |-> NoText]

NoOutcome == [kind |-> "none", msg |-> NoText, title |-> MissingTitle,
              files |-> {}, formats |-> <<>>]

\* The outcomes of ydl.extract_info(url, download=True).
MaterializeOutcomes(base, dot_ext) ==
    {[NoOutcome EXCEPT !.kind = "ok", !.title = t, !.files = w] :
        t \in EngineTitles, w \in EngineWrites(base, dot_ext)}
    \cup
    {[NoOutcome EXCEPT !.kind = k, !.msg = m, !.files = w] :
        k \in {"DownloadError", "Exception"}, m \in ErrorMessages,
        w \in PartialWrites(base)}

\* A reported format: its place in the engine's list is its format_id.
Format(i, vcodec, height) ==
    [format_id |-> i, vcodec |-> vcodec, ext |-> <<"m", "p", "4">>, height |-> height]

\* f.get('vcodec'): a codec, 'none' (no video) or missing
VCodecs == {"avc1", "none", "missing"}

\* The format lists of the request runs.
ReportedFormats ==
    { <<>>,
      <<Format(1, "avc1", 1), Format(2, "none", NoHeight), Format(3, "avc1", 2)>>,
      <<Format(1, "missing", NoHeight), Format(2, "avc1", 2), Format(3, "avc1", 2)>> }

\* The outcomes of ydl.extract_info(url, download=False).
InfoOutcomes ==
    {[NoOutcome EXCEPT !.kind = "ok", !.title = t, !.formats = fl] :
        t \in EngineTitles, fl \in ReportedFormats}
    \cup
    {[NoOutcome EXCEPT !.kind = k, !.msg = m] :
        k \in {"DownloadError", "Exception"}, m \in ErrorMessages}

NoPage == [kind |-> "none", msg |-> NoText, og_video |-> FALSE, og_image |-> FALSE,
           video_src |-> FALSE]

\* The outcomes of client.get(url): a page with or without the tags the
\* scrapers read, or an exception of the HTTP client.
Pages ==
    {[NoPage EXCEPT !.kind = "ok", !.og_video = v, !.og_image = i, !.video_src = s] :
        v \in BOOLEAN, i \in BOOLEAN, s \in BOOLEAN}
    \cup
    {[NoPage EXCEPT !.kind = "error", !.msg = m] : m \in ClientMessages}

ImagePng == <<"i", "m", "a", "g", "e", "/", "p", "n", "g">>
ImageWebp == <<"i", "m", "a", "g", "e", "/", "w", "e", "b", "p">>
ImageJpeg == <<"i", "m", "a", "g", "e", "/", "j", "p", "e", "g">>

\* The outcomes of client.get(image_url).
Images ==
    {[kind |-> "ok", msg |-> NoText, status_code |-> c, content_type |-> t, size |-> z] :
        c \in {200, 404}, t \in {ImagePng, ImageWebp, ImageJpeg, NoText}, z \in {0, 1}}
    \cup
    {[kind |-> "error", msg |-> m, status_code |-> 0, content_type |-> NoText, size |-> 0] :
        m \in ClientMessages}

\* ext = 'jpg'; 'png' in content_type -> 'png'; 'webp' in content_type -> 'webp'
image_ext(content_type) ==
    IF Contains(content_type, S_png) THEN S_png
    ELSE IF Contains(content_type, S_webp) THEN S_webp
    ELSE S_jpg

\* The status dicts the engine hands to its progress hooks in the course of
\* a materialization (options built with include_progress=True).
progress_events(o) ==
    IF o.kind = "ok"
    THEN {[status |-> st, filename |-> f.name] :
            st \in {"downloading", "finished"}, f \in o.files}
    ELSE {[status |-> "error", filename |-> NoText]}

\* progress_hook that keeps what it is told in download_progress.
progress_hook_recording(progress, d) == progress \cup {d}

\* progress_hook(d): each branch logs a line; download_progress is not
\* touched.
progress_hook(progress, d) == progress

RECURSIVE run_progress_hooks(_, _)
run_progress_hooks(progress, events) ==
    IF events = {} THEN progress
    ELSE LET d == CHOOSE e \in events : TRUE IN
         run_progress_hooks(progress_hook(progress, d), events \ {d})

\* The readings of datetime.now().
Clock == {"t1", "t2"}
NoTime == "none"

\* The body of the health response: its status, the error text of the
\* unhealthy report and the timestamp.
NoReport == [status |-> "", error |-> NoText, timestamp |-> NoTime]

\* The outcomes of yt_dlp.YoutubeDL({'quiet': True}).
HealthOutcomes ==
    {[NoOutcome EXCEPT !.kind = "ok"]} \cup
    {[NoOutcome EXCEPT !.kind = "Exception", !.msg = m] : m \in ErrorMessages}

\* health_check without its try: the exception of the engine's
\* initialization leaves the handler.
health_report_unguarded(o, now) ==
    IF o.kind = "ok"
    THEN [response |-> OkResponse,
          health |-> [status |-> "healthy", error |-> NoText, timestamp |-> now]]
    ELSE [response |-> global_exception_handler(o.msg), health |-> NoReport]

\* What health_check returns: the healthy report, or from its except branch
\* the unhealthy one with str(e); both are ordinary (200) responses.
health_report(o, now) ==
    IF o.kind = "ok"
    THEN [response |-> OkResponse,
          health |-> [status |-> "healthy", error |-> NoText, timestamp |-> now]]
    ELSE [response |-> OkResponse,
          health |-> [status |-> "unhealthy", error |-> o.msg, timestamp |-> now]]

\* ------------------------------------------------------------------- state

Reqs == {"r1", "r2"}
NoReq == "none"

VARIABLES
    req,    \* per request: the handler's position, locals and response
    fs,     \* the temporary directories and their files
    loop,   \* the request whose blocking engine call holds the event loop
    download_progress   \* the module-level dict of that name

vars == <<req, fs, loop, download_progress>>

NewRequest ==
    [pc |-> "idle", endpoint |-> "", url |-> NoText, platform |-> "",
     temp_dir |-> NoDir, engine |-> NoError, page |-> NoPage,
     located |-> "none", file |-> NoText, file_ext |-> NoText, title |-> NoText,
     content_length |-> 0, background |-> FALSE,
     stream |-> "none", pos |-> 0, chunks |-> <<>>,
     response |-> NoResponse, reported |-> <<>>, info_formats |-> <<>>,
     formats |-> <<>>,
     engine_calls |-> 0, scraper_calls |-> 0, cleanup_calls |-> 0,
     cleanup_raised |-> FALSE, cleaned |-> AbsentDir, health |-> NoReport]

\* The server is up and the requests in `arriving` are about to be received.
InitWith(arriving) ==
    /\ req = [r \in Reqs |->
                IF r \in arriving THEN NewRequest ELSE [NewRequest EXCEPT !.pc = "absent"]]
    /\ fs = [d \in DirNames |-> AbsentDir]
    /\ loop = NoReq
    /\ download_progress = {}

Init == InitWith({"r1"})

\* ----------------------------------------------------------------- helpers

UnsupportedPlatform == HTTPException(400, "Unsupported platform", NoText)

\* A mkdtemp that may hand out a directory that exists already.
AnyDirs == DirNames

\* tempfile.mkdtemp(): a directory that did not exist is created
FreeDirs == {d \in DirNames : ~fs[d].exists}

mkdtemp(fsys, d) == [fsys EXCEPT ![d] = EmptyDir]

\* The handler ends by raising: the error is the response.
raised(q, exc) == [q EXCEPT !.response = exc, !.pc = "done"]

\* An except branch that raises without calling cleanup_temp_files.
raised_without_cleanup(q, exc) == raised(q, exc)

\* An except branch of a download handler: cleanup_temp_files(temp_dir),
\* then the error is raised.
cleaned_and_raised(q, exc) ==
    [q EXCEPT !.response = exc, !.pc = "done", !.cleanup_calls = @ + 1]

\* os.path.getsize, the extension, background_tasks.add_task(cleanup_temp_files,
\* temp_dir) and the StreamingResponse with its headers.
streaming_response(q, f, title, default_ext) ==
    [q EXCEPT !.located = "found",
              !.file = f.name,
              !.content_length = f.size,
              !.file_ext = IF splitext_ext(f.name) = NoText THEN default_ext
                           ELSE splitext_ext(f.name),
              !.title = title,
              !.background = TRUE,
              !.stream = "open",
              !.response = OkResponse,
              !.pc = "streaming"]

\* downloaded_files[0]: the first match in listing order, which is arbitrary
FirstMatches(matches) == IF matches = {} THEN {File(NoText, 0)} ELSE matches

\* ------------------------------------------------------------- /api/health

\* health_check: it does not await, so it is one step of the event loop.
health_check(r, outcomes) ==
    /\ req[r].pc = "idle"
    /\ loop = NoReq
    /\ \E o \in outcomes, now \in Clock :
        LET report == health_report(o, now) IN
        req' = [req EXCEPT ![r] =
            [@ EXCEPT !.endpoint = "health", !.engine = EngineEnd(o),
                      !.health = report.health, !.response = report.response,
                      !.pc = "done"]]
    /\ UNCHANGED <<fs, loop, download_progress>>

\* ------------------------------------------------------------ /api/extract

\* extract_media up to its await of the platform's handler: the engine call
\* of get_ytdlp_info blocks the event loop, the scrape of get_linkedin_info
\* suspends the task.
extract_media(r, urls) ==
    /\ req[r].pc = "idle"
    /\ loop = NoReq
    /\ \E u \in urls :
        LET platform == detect_platform(u)
            q == [req[r] EXCEPT !.endpoint = "extract", !.url = u, !.platform = platform]
        IN  /\ req' = [req EXCEPT ![r] =
                    IF platform = "unknown" THEN raised(q, UnsupportedPlatform)
                    ELSE IF platform = "linkedin"
                         THEN [q EXCEPT !.pc = "scrape", !.scraper_calls = @ + 1]
                    ELSE [q EXCEPT !.pc = "engine", !.engine_calls = @ + 1]]
            /\ loop' = IF platform \in {"unknown", "linkedin"} THEN NoReq ELSE r
    /\ UNCHANGED <<fs, download_progress>>

\* The HTTPException get_ytdlp_info raises for a failed extraction.
ytdlp_info_error(o) ==
    IF o.kind = "DownloadError" THEN ytdlp_info_download_error(o.msg)
    ELSE HTTPException(500, "Server error: ", o.msg)

\* get_ytdlp_info from the return of ydl.extract_info(url, download=False),
\* and what its caller does with the result: get_instagram_info catches any
\* exception and goes on to scrape, the others let it through.  The result
\* carries 'title': info.get('title'), None when the engine reports no
\* title, which MediaInfo (title: str) refuses; nothing catches that.
get_ytdlp_info(r, outcomes) ==
    /\ req[r].pc = "engine"
    /\ req[r].endpoint = "extract"
    /\ loop = r
    /\ \E o \in outcomes :
        LET q == [req[r] EXCEPT !.engine = EngineEnd(o)] IN
        req' = [req EXCEPT ![r] =
            IF o.kind = "ok"
            THEN LET got == [q EXCEPT !.info_formats = o.formats,
                                      !.formats = ytdlp_formats(o.formats)]
                 IN  IF o.title = MissingTitle
                     THEN raised(got, global_exception_handler(ValidationErrorText))
                     ELSE [got EXCEPT !.response = OkResponse, !.pc = "done"]
            ELSE IF q.platform = "instagram"
                 THEN [q EXCEPT !.pc = "scrape", !.scraper_calls = @ + 1]
            ELSE raised(q, ytdlp_info_error(o))]
    /\ loop' = NoReq
    /\ UNCHANGED <<fs, download_progress>>

\* The single candidate a scraper returns.
scraped_format(ext) == [format_id |-> 0, ext |-> ext, height |-> NoHeight]

\* get_instagram_info from the return of its client.get: the candidate is the
\* og:video, else the og:image, whose subscript raises TypeError when the tag
\* is missing; nothing catches that or an exception of the HTTP client.
get_instagram_info(r, pages) ==
    /\ req[r].pc = "scrape"
    /\ req[r].endpoint = "extract"
    /\ req[r].platform = "instagram"
    /\ loop = NoReq
    /\ \E p \in pages :
        LET q == [req[r] EXCEPT !.page = p] IN
        req' = [req EXCEPT ![r] =
            IF p.kind = "error" THEN raised(q, global_exception_handler(p.msg))
            ELSE IF p.og_video
                 THEN [q EXCEPT !.formats = <<scraped_format(S_mp4)>>,
                                !.response = OkResponse, !.pc = "done"]
            ELSE IF p.og_image
                 THEN [q EXCEPT !.formats = <<scraped_format(S_jpg)>>,
                                !.response = OkResponse, !.pc = "done"]
            ELSE raised(q, global_exception_handler(NoneTypeText))]
    /\ UNCHANGED <<fs, loop, download_progress>>

\* get_linkedin_info from the return of its client.get.
get_linkedin_info(r, pages) ==
    /\ req[r].pc = "scrape"
    /\ req[r].endpoint = "extract"
    /\ req[r].platform = "linkedin"
    /\ loop = NoReq
    /\ \E p \in pages :
        LET q == [req[r] EXCEPT !.page = p] IN
        req' = [req EXCEPT ![r] =
            IF p.kind = "error" THEN raised(q, global_exception_handler(p.msg))
            ELSE IF p.video_src
                 THEN [q EXCEPT !.formats = <<scraped_format(S_mp4)>>,
                                !.response = OkResponse, !.pc = "done"]
            ELSE raised(q, HTTPException(404, "No video found in LinkedIn post", NoText))]
    /\ UNCHANGED <<fs, loop, download_progress>>

\* ----------------------------------------------------------- /api/download

\* download_media_streaming up to the blocking ydl.extract_info(url,
\* download=True): the platform check, then mkdtemp.
download_media_streaming(r, urls) ==
    /\ req[r].pc = "idle"
    /\ loop = NoReq
    /\ \E u \in urls, d \in FreeDirs :
        LET platform == detect_platform(u)
            q == [req[r] EXCEPT !.endpoint = "download", !.url = u, !.platform = platform]
        IN  IF platform = "unknown"
            THEN /\ req' = [req EXCEPT ![r] = raised(q, UnsupportedPlatform)]
                 /\ UNCHANGED <<fs, loop>>
            ELSE /\ req' = [req EXCEPT ![r] =
                        [q EXCEPT !.temp_dir = d, !.pc = "engine", !.engine_calls = @ + 1]]
                 /\ fs' = mkdtemp(fs, d)
                 /\ loop' = r
    /\ UNCHANGED download_progress

\* download_media_streaming from the return of the engine: the locate step,
\* the streaming response, and the two except branches.  The HTTPException
\* of the locate step is an Exception, so the last branch catches it.
download_media_materialized(r, outcomes) ==
    /\ req[r].pc = "engine"
    /\ req[r].endpoint = "download"
    /\ loop = r
    /\ \E o \in outcomes :
        /\ download_progress' =
                run_progress_hooks(download_progress, progress_events(o))
        /\ LET q == [req[r] EXCEPT !.engine = EngineEnd(o)]
               written == write_files(fs, q.temp_dir, o.files)
               downloaded_files == glob(written[q.temp_dir].files, video)
           IN  \E downloaded_file \in FirstMatches(downloaded_files) :
               IF o.kind = "ok" /\ downloaded_files # {}
               THEN /\ req' = [req EXCEPT ![r] =
                           streaming_response(q, downloaded_file,
                               response_title(o.title, downloaded_video), S_mp4)]
                    /\ fs' = written
               ELSE /\ req' = [req EXCEPT ![r] =
                           IF o.kind = "ok"
                           THEN cleaned_and_raised([q EXCEPT !.located = "missing"],
                                   HTTPException(500, "Server error: ", NoFileText))
                           ELSE IF o.kind = "DownloadError"
                                THEN cleaned_and_raised(q, download_media_download_error(o.msg))
                           ELSE cleaned_and_raised(q,
                                   HTTPException(500, "Server error: ", o.msg))]
                    /\ fs' = cleanup_temp_files(written, q.temp_dir)
    /\ loop' = NoReq

\* ---------------------------------------------------- /api/download_format

\* download_format_streaming up to the blocking engine call: mkdtemp, with
\* no platform check.
download_format_streaming(r, urls) ==
    /\ req[r].pc = "idle"
    /\ loop = NoReq
    /\ \E u \in urls, d \in FreeDirs :
        /\ req' = [req EXCEPT ![r] =
                [@ EXCEPT !.endpoint = "download_format", !.url = u,
                          !.temp_dir = d, !.pc = "engine", !.engine_calls = @ + 1]]
        /\ fs' = mkdtemp(fs, d)
    /\ loop' = r
    /\ UNCHANGED download_progress

\* download_format_streaming from the return of the engine: one except
\* branch answers every exception with status 400.
download_format_materialized(r, outcomes) ==
    /\ req[r].pc = "engine"
    /\ req[r].endpoint = "download_format"
    /\ loop = r
    /\ \E o \in outcomes :
        /\ download_progress' =
                run_progress_hooks(download_progress, progress_events(o))
        /\ LET q == [req[r] EXCEPT !.engine = EngineEnd(o)]
               written == write_files(fs, q.temp_dir, o.files)
               downloaded_files == glob(written[q.temp_dir].files, video)
           IN  \E downloaded_file \in FirstMatches(downloaded_files) :
               IF o.kind = "ok" /\ downloaded_files # {}
               THEN /\ req' = [req EXCEPT ![r] =
                           streaming_response(q, downloaded_file,
                               response_title(o.title, downloaded_video), S_mp4)]
                    /\ fs' = written
               ELSE /\ req' = [req EXCEPT ![r] =
                           IF o.kind = "ok"
                           THEN cleaned_and_raised([q EXCEPT !.located = "missing"],
                                   HTTPException(400, "Download failed: ", NoFileText))
                           ELSE cleaned_and_raised(q,
                                   HTTPException(400, "Download failed: ", o.msg))]
                    /\ fs' = cleanup_temp_files(written, q.temp_dir)
    /\ loop' = NoReq

\* ----------------------------------------------------- /api/download_photo

\* download_photo_streaming up to the blocking engine call.
download_photo_streaming(r, urls) ==
    /\ req[r].pc = "idle"
    /\ loop = NoReq
    /\ \E u \in urls, d \in FreeDirs :
        LET platform == detect_platform(u)
            q == [req[r] EXCEPT !.endpoint = "download_photo", !.url = u,
                                !.platform = platform]
        IN  IF platform = "unknown"
            THEN /\ req' = [req EXCEPT ![r] = raised(q, UnsupportedPlatform)]
                 /\ UNCHANGED <<fs, loop>>
            ELSE /\ req' = [req EXCEPT ![r] =
                        [q EXCEPT !.temp_dir = d, !.pc = "engine", !.engine_calls = @ + 1]]
                 /\ fs' = mkdtemp(fs, d)
                 /\ loop' = r
    /\ UNCHANGED download_progress

\* download_photo_streaming from the return of the engine: a located file is
\* streamed; any exception of the inner try, the "No file downloaded" one
\* included, starts the direct HTTP fallback, whatever the platform.
download_photo_materialized(r, outcomes) ==
    /\ req[r].pc = "engine"
    /\ req[r].endpoint = "download_photo"
    /\ loop = r
    /\ \E o \in outcomes :
        /\ download_progress' =
                run_progress_hooks(download_progress, progress_events(o))
        /\ LET q == [req[r] EXCEPT !.engine = EngineEnd(o)]
               written == write_files(fs, q.temp_dir, o.files)
               downloaded_files == glob(written[q.temp_dir].files, photo)
           IN  \E downloaded_file \in FirstMatches(downloaded_files) :
               /\ req' = [req EXCEPT ![r] =
                       IF o.kind = "ok" /\ downloaded_files # {}
                       THEN streaming_response(q, downloaded_file,
                               response_title(o.title, downloaded_photo), S_jpg)
                       ELSE [q EXCEPT !.located = IF o.kind = "ok" THEN "missing" ELSE @,
                                      !.pc = "scrape", !.scraper_calls = @ + 1]]
               /\ fs' = written
    /\ loop' = NoReq

\* The fallback from the return of client.get(url): without an og:image the
\* HTTPException 404 is cleaned up after and re-raised; an exception of the
\* HTTP client is answered with status 400.
download_photo_fallback(r, pages) ==
    /\ req[r].pc = "scrape"
    /\ req[r].endpoint = "download_photo"
    /\ loop = NoReq
    /\ \E p \in pages :
        LET q == [req[r] EXCEPT !.page = p] IN
        IF p.kind = "ok" /\ p.og_image
        THEN /\ req' = [req EXCEPT ![r] = [q EXCEPT !.pc = "image"]]
             /\ fs' = fs
        ELSE /\ req' = [req EXCEPT ![r] =
                    IF p.kind = "error"
                    THEN cleaned_and_raised(q,
                            HTTPException(400, "Failed to download photo: ", p.msg))
                    ELSE cleaned_and_raised(q,
                            HTTPException(404, "No image found", NoText))]
             /\ fs' = cleanup_temp_files(fs, q.temp_dir)
    /\ UNCHANGED <<loop, download_progress>>

\* The fallback from the return of client.get(image_url): the bytes are
\* written to photo.<ext> and streamed.
download_photo_image(r, images) ==
    /\ req[r].pc = "image"
    /\ loop = NoReq
    /\ \E i \in images :
        LET q == req[r]
            downloaded_file == File(photo \o <<".">> \o image_ext(i.content_type), i.size)
        IN  IF i.kind = "ok" /\ i.status_code = 200
            THEN /\ req' = [req EXCEPT ![r] =
                        streaming_response(q, downloaded_file, downloaded_photo, S_jpg)]
                 /\ fs' = write_file(fs, q.temp_dir, downloaded_file)
            ELSE /\ req' = [req EXCEPT ![r] =
                        IF i.kind = "error"
                        THEN cleaned_and_raised(q,
                                HTTPException(400, "Failed to download photo: ", i.msg))
                        ELSE cleaned_and_raised(q,
                                HTTPException(400, "Failed to download image", NoText))]
                 /\ fs' = cleanup_temp_files(fs, q.temp_dir)
    /\ UNCHANGED <<loop, download_progress>>

\* ---------------------------------------------- the streaming response

Min(a, b) == IF a < b THEN a ELSE b

\* The file the streamer reads, as the filesystem holds it.
stored_file(fsys, q) ==
    IF fsys[q.temp_dir].exists /\ (\E f \in fsys[q.temp_dir].files : f.name = q.file)
    THEN CHOOSE f \in fsys[q.temp_dir].files : f.name = q.file
    ELSE File(NoText, 0)

\* A read with no size: everything from the position to the end of the file.
read_all(f, pos, n) == f.size - pos

\* f.read(n) at position pos: the number of bytes returned, at most n and
\* no more than the file has left; 0 at the end of the file.
read(f, pos, n) == Min(n, f.size - pos)

\* One pull of the transport on file_streamer: f.read(8192) and the yield of
\* the chunk, or the end of the generator on the empty read.  A chunk is
\* recorded as the bytes [offset, offset + size) of the file.  A file that
\* open() does not find raises out of the response.
file_streamer(r) ==
    /\ req[r].pc = "streaming"
    /\ loop = NoReq
    /\ LET q == req[r]
           f == stored_file(fs, q)
           chunk == read(f, q.pos, ChunkSize)
       IN  req' = [req EXCEPT ![r] =
                IF f.name = NoText THEN [q EXCEPT !.stream = "failed", !.pc = "done"]
                ELSE IF chunk > 0
                     THEN [q EXCEPT !.pos = @ + chunk,
                                    !.chunks = Append(@, [offset |-> q.pos, size |-> chunk])]
                ELSE [q EXCEPT !.stream = "complete", !.pc = "background"]]
    /\ UNCHANGED <<fs, loop, download_progress>>

\* A read of the streamer raises (an I/O error): the exception leaves the
\* response, and the response's background tasks are not run.
file_streamer_error(r) ==
    /\ req[r].pc = "streaming"
    /\ loop = NoReq
    /\ req' = [req EXCEPT ![r] = [@ EXCEPT !.stream = "failed", !.pc = "done"]]
    /\ UNCHANGED <<fs, loop, download_progress>>

\* The client goes away while the response streams: the server (uvicorn, as
\* the module's last line runs it) ends the stream early and the response
\* goes on to its background tasks.
client_disconnect(r) ==
    /\ req[r].pc = "streaming"
    /\ loop = NoReq
    /\ req' = [req EXCEPT ![r] = [@ EXCEPT !.stream = "disconnected", !.pc = "background"]]
    /\ UNCHANGED <<fs, loop, download_progress>>

\* The background task of the response: cleanup_temp_files(temp_dir).
background_cleanup(r) ==
    /\ req[r].pc = "background"
    /\ loop = NoReq
    /\ req' = [req EXCEPT ![r] = [@ EXCEPT !.cleanup_calls = @ + 1, !.pc = "done"]]
    /\ fs' = cleanup_temp_files(fs, req[r].temp_dir)
    /\ UNCHANGED <<loop, download_progress>>

\* ----------------------------------------------------------- specifications

Next ==
    \E r \in Reqs :
        \/ health_check(r, HealthOutcomes)
        \/ extract_media(r, RequestUrls)
        \/ get_ytdlp_info(r, InfoOutcomes)
        \/ get_instagram_info(r, Pages)
        \/ get_linkedin_info(r, Pages)
        \/ download_media_streaming(r, RequestUrls)
        \/ download_media_materialized(r, MaterializeOutcomes(video, DotMp4))
        \/ download_format_streaming(r, RequestUrls)
        \/ download_format_materialized(r, MaterializeOutcomes(video, DotMp4))
        \/ download_photo_streaming(r, RequestUrls)
        \/ download_photo_materialized(r, MaterializeOutcomes(photo, DotJpg))
        \/ download_photo_fallback(r, Pages)
        \/ download_photo_image(r, Images)
        \/ file_streamer(r)
        \/ file_streamer_error(r)
        \/ client_disconnect(r)
        \/ background_cleanup(r)

Spec == Init /\ [][Next]_vars

\* The format-ranking runs: /api/extract on a YouTube URL, the engine
\* reporting any list of at most MaxFormats formats.
RankingUrls == { <<"y", "o", "u", "t", "u", "b", "e", ".", "c", "o", "m">> }

Heights == {NoHeight} \cup (0..MaxHeight)

\* During its call the engine collects the formats it will report, one at
\* a time, each numbered by its place in the list.
engine_reports_format(r) ==
    /\ req[r].pc = "engine"
    /\ req[r].endpoint = "extract"
    /\ loop = r
    /\ Len(req[r].reported) < MaxFormats
    /\ \E v \in VCodecs, h \in Heights :
        req' = [req EXCEPT ![r] =
            [@ EXCEPT !.reported = Append(@, Format(Len(@) + 1, v, h))]]
    /\ UNCHANGED <<fs, loop, download_progress>>

\* The engine returns the formats it collected.
RankingOutcomes(r) ==
    {[NoOutcome EXCEPT !.kind = "ok", !.title = <<"a", "/", "b">>,
                       !.formats = req[r].reported]}

NextFormats ==
    \E r \in Reqs :
        \/ extract_media(r, RankingUrls)
        \/ engine_reports_format(r)
        \/ get_ytdlp_info(r, RankingOutcomes(r))

SpecFormats == Init /\ [][NextFormats]_vars

\* The candidate-cap runs: /api/extract on a YouTube URL, the engine
\* reporting up to MaxReported video formats, more than the response keeps.
CapHeights == {NoHeight, 1080}

engine_reports_video_format(r) ==
    /\ req[r].pc = "engine"
    /\ req[r].endpoint = "extract"
    /\ loop = r
    /\ Len(req[r].reported) < MaxReported
    /\ \E h \in CapHeights :
        req' = [req EXCEPT ![r] =
            [@ EXCEPT !.reported = Append(@, Format(Len(@) + 1, "avc1", h))]]
    /\ UNCHANGED <<fs, loop, download_progress>>

NextCap ==
    \E r \in Reqs :
        \/ extract_media(r, RankingUrls)
        \/ engine_reports_video_format(r)
        \/ get_ytdlp_info(r, RankingOutcomes(r))

SpecCap == Init /\ [][NextCap]_vars

\* The concurrent runs: two requests arrive at the one event loop of the
\* server process (uvicorn main:app), on URLs of two platforms, with an
\* engine that succeeds, writes nothing, or fails.
ConcUrls ==
    { <<"y", "o", "u", "t", "u", "b", "e", ".", "c", "o", "m">>,
      <<"i", "n", "s", "t", "a", "g", "r", "a", "m", ".", "c", "o", "m">> }

ConcTitle == <<"a", "/", "b">>

ConcError == <<"b", "o", "o", "m">>

ConcInfoOutcomes ==
    { [NoOutcome EXCEPT !.kind = "ok", !.title = ConcTitle,
                        !.formats = <<Format(1, "avc1", 1)>>],
      [NoOutcome EXCEPT !.kind = "DownloadError", !.msg = ConcError] }

ConcMaterializeOutcomes(base, dot_ext) ==
    { [NoOutcome EXCEPT !.kind = "ok", !.title = ConcTitle,
                        !.files = {File(base \o dot_ext, ChunkSize + 1)}],
      [NoOutcome EXCEPT !.kind = "ok", !.title = ConcTitle],
      [NoOutcome EXCEPT !.kind = "DownloadError", !.msg = ConcError,
                        !.files = {File(base \o DotMp4 \o DotPart, 1)}] }

ConcPages ==
    { [NoPage EXCEPT !.kind = "ok", !.og_image = TRUE],
      [NoPage EXCEPT !.kind = "ok"] }

ConcImages ==
    { [kind |-> "ok", msg |-> NoText, status_code |-> 200, content_type |-> ImagePng,
       size |-> 1] }

InitConc == InitWith(Reqs)

NextConc ==
    \E r \in Reqs :
        \/ extract_media(r, ConcUrls)
        \/ get_ytdlp_info(r, ConcInfoOutcomes)
        \/ get_instagram_info(r, ConcPages)
        \/ download_media_streaming(r, ConcUrls)
        \/ download_media_materialized(r, ConcMaterializeOutcomes(video, DotMp4))
        \/ download_photo_streaming(r, ConcUrls)
        \/ download_photo_materialized(r, ConcMaterializeOutcomes(photo, DotJpg))
        \/ download_photo_fallback(r, ConcPages)
        \/ download_photo_image(r, ConcImages)
        \/ file_streamer(r)
        \/ file_streamer_error(r)
        \/ client_disconnect(r)
        \/ background_cleanup(r)

SpecConc == InitConc /\ [][NextConc]_vars

\* The cleanup runs: cleanup_temp_files called, up to MaxCleanups times, on
\* a workspace in any state: absent, empty, or holding entries of which some
\* cannot be unlinked (no permission, a subdirectory) or are not listed.
DotHidden == <<".", "h", "i", "d", "d", "e", "n">>

CleanupNames == {video \o DotMp4, video \o DotMp4 \o DotPart, DotHidden}

Workspaces ==
    {AbsentDir} \cup
    {[exists |-> TRUE, files |-> w] :
        w \in {x \in SUBSET {[File(n, 1) EXCEPT !.deletable = b] :
                                n \in CleanupNames, b \in BOOLEAN} :
                    \A f, g \in x : f.name = g.name => f = g}}

InitCleanup ==
    /\ \E d \in DirNames :
        req = [r \in Reqs |->
                IF r = "r1" THEN [NewRequest EXCEPT !.pc = "cleanup", !.temp_dir = d]
                ELSE [NewRequest EXCEPT !.pc = "absent"]]
    /\ fs \in [DirNames -> Workspaces]
    /\ loop = NoReq
    /\ download_progress = {}

\* One call cleanup_temp_files(temp_dir).  What the first call left is kept
\* for comparison with what later calls leave.
cleanup_call(r) ==
    /\ req[r].pc = "cleanup"
    /\ req[r].cleanup_calls < MaxCleanups
    /\ fs' = cleanup_temp_files(fs, req[r].temp_dir)
    /\ req' = [req EXCEPT ![r] =
            [@ EXCEPT !.cleanup_calls = @ + 1,
                      !.cleanup_raised = @ \/ cleanup_raises(fs, req[r].temp_dir),
                      !.cleaned = IF req[r].cleanup_calls = 0
                                  THEN fs'[req[r].temp_dir] ELSE @]]
    /\ UNCHANGED <<loop, download_progress>>

NextCleanup == \E r \in Reqs : cleanup_call(r)

SpecCleanup == InitCleanup /\ [][NextCleanup]_vars

\* The platform-detection runs: the handlers that call detect_platform, on
\* URLs put together from the markers, in lower, upper and mixed case, and
\* from text that holds no marker or holds one inside a longer name.
DetectSegments ==
    { M_youtube_com, M_youtu_be, M_tiktok_com, M_instagram_com, M_facebook_com,
      M_fb_watch, M_twitter_com, M_x_com, M_linkedin_com,
      <<"Y", "O", "U", "T", "U", ".", "B", "E">>,
      <<"T", "i", "k", "T", "o", "k", ".", "c", "o", "m">>,
      <<"F", "B", ".", "W", "a", "t", "c", "h">>,
      <<"L", "I", "N", "K", "E", "D", "I", "N", ".", "C", "O", "M">>,
      <<"n", "e", "t", "f", "l", "i", "X", ".", "c", "o", "m">>,
      <<"e", "x", "a", "m", "p", "l", "e", ".", "c", "o", "m">>,
      <<"x", ".", "c", "o">>,
      <<"/">> }

RECURSIVE SegmentUrls(_)
SegmentUrls(n) ==
    IF n <= 1 THEN DetectSegments
    ELSE LET shorter == SegmentUrls(n - 1) IN
         shorter \cup {u \o g : u \in shorter, g \in DetectSegments}

DetectUrls == SegmentUrls(MaxSegments)

NextDetect ==
    \E r \in Reqs :
        \/ extract_media(r, DetectUrls)
        \/ download_media_streaming(r, DetectUrls)
        \/ download_photo_streaming(r, DetectUrls)

SpecDetect == Init /\ [][NextDetect]_vars

\* ------------------------------------------------------------------ claims

Done(r) == req[r].pc = "done"

EngineFailed(r) == req[r].engine.kind \in {"DownloadError", "Exception"}

WorkspaceExists(r) == req[r].temp_dir # NoDir /\ fs[req[r].temp_dir].exists

DownloadEndpoints == {"download", "download_format", "download_photo"}

\* The endpoints whose request carries a URL.
UrlEndpoints == {"extract"} \cup DownloadEndpoints

\* C1: once a download request that created a workspace has concluded,
\* whatever its outcome, its workspace directory no longer exists.
C1_WorkspaceGoneAfterRequest ==
    \A r \in Reqs :
        (Done(r) /\ req[r].temp_dir # NoDir) => ~WorkspaceExists(r)

\* C2: a request whose URL classifies as unknown is rejected with
\* UnsupportedPlatform (400) on every endpoint, with no engine call, no
\* scrape and no workspace.
C2_UnknownRejectedFirst ==
    \A r \in Reqs :
        (req[r].endpoint \in UrlEndpoints /\ detect_platform(req[r].url) = "unknown") =>
            /\ req[r].engine_calls = 0
            /\ req[r].scraper_calls = 0
            /\ req[r].temp_dir = NoDir
            /\ req[r].response = UnsupportedPlatform

\* C3: when the engine reports success and the located file has size 0, the
\* request fails with status 400, returns no stream, and its workspace is
\* cleaned up.
C3_ZeroByteFileIsEmptyResult ==
    \A r \in Reqs :
        (/\ req[r].endpoint \in DownloadEndpoints
         /\ req[r].engine.kind = "ok"
         /\ req[r].located = "found"
         /\ req[r].content_length = 0) =>
            /\ req[r].response.status = 400
            /\ req[r].stream = "none"
            /\ ~WorkspaceExists(r)

\* C4: when materialization returns without error and no file matches the
\* prefix, the request ends with status 400 and its workspace cleaned up.
C4_NoFileIsEmptyResult400 ==
    \A r \in Reqs :
        (/\ req[r].endpoint \in DownloadEndpoints
         /\ req[r].engine.kind = "ok"
         /\ req[r].located = "missing"
         /\ Done(r)) =>
            /\ req[r].response.status = 400
            /\ ~WorkspaceExists(r)

\* The signals of the failure translation: blocked/forbidden, missing or
\* invalid content, timeout.
BlockedSignal(msg) == Contains(msg, S_403) \/ Contains(msg, S_Forbidden)
MissingSignal(msg) == Contains(msg, S_404) \/ Contains(Lower(msg), S_not_found)
TimeoutSignal(msg) == Contains(Lower(msg), S_timeout)

\* The status of the error kind of an engine failure: AccessDenied, NotFound,
\* Timeout, else UpstreamFailure.  Messages with several signals are left
\* out (the status 0 matches none).
ErrorKindStatus(msg) ==
    IF BlockedSignal(msg) /\ ~MissingSignal(msg) /\ ~TimeoutSignal(msg) THEN 403
    ELSE IF MissingSignal(msg) /\ ~BlockedSignal(msg) /\ ~TimeoutSignal(msg) THEN 404
    ELSE IF TimeoutSignal(msg) /\ ~BlockedSignal(msg) /\ ~MissingSignal(msg) THEN 408
    ELSE IF ~BlockedSignal(msg) /\ ~MissingSignal(msg) /\ ~TimeoutSignal(msg) THEN 400
    ELSE 0

\* C5: on every endpoint that calls the engine, a failure the engine raises
\* and the request answers with is classified by its message: blocked 403,
\* missing 404, timeout 408, any other 400.
C5_EngineFailureClassifiedAlike ==
    \A r \in Reqs :
        (/\ Done(r)
         /\ req[r].engine.kind = "DownloadError"
         /\ req[r].scraper_calls = 0
         /\ ErrorKindStatus(req[r].engine.msg) # 0) =>
            req[r].response.status = ErrorKindStatus(req[r].engine.msg)

\* C6: for an Instagram URL an engine failure of any kind is followed by the
\* fallback (the scrape on the metadata endpoint, the photo fallback on the
\* download endpoints), and when the scrape finds only an og:image the
\* metadata response is one image candidate of extension jpg.
C6_InstagramFallsBack ==
    \A r \in Reqs :
        (req[r].platform = "instagram" /\ EngineFailed(r) /\ Done(r)) =>
            /\ req[r].scraper_calls > 0
            /\ (/\ req[r].endpoint = "extract"
                /\ req[r].page.kind = "ok"
                /\ ~req[r].page.og_video
                /\ req[r].page.og_image) =>
                    /\ req[r].response.status = 200
                    /\ Len(req[r].formats) = 1
                    /\ req[r].formats[1].ext = S_jpg

\* C7: when the scraper is used and the page carries neither a usable video
\* tag nor a usable image tag, the request fails with status 404.
C7_ScrapeWithoutMediaIs404 ==
    \A r \in Reqs :
        (/\ Done(r)
         /\ req[r].page.kind = "ok"
         /\ ~req[r].page.og_video
         /\ ~req[r].page.og_image
         /\ ~req[r].page.video_src) =>
            req[r].response.status = 404

EngineNative == {"youtube", "tiktok", "twitter", "facebook"}

\* C8: for a youtube, tiktok, twitter or facebook URL the scraping/HTTP
\* fallback is never invoked, on any endpoint.
C8_EngineNativeNeverScrapes ==
    \A r \in Reqs :
        (req[r].endpoint # "" /\ detect_platform(req[r].url) \in EngineNative) =>
            req[r].scraper_calls = 0

\* C9: for a linkedin URL the extraction engine is never invoked, on any
\* endpoint.
C9_LinkedinNeverCallsEngine ==
    \A r \in Reqs :
        (req[r].endpoint # "" /\ detect_platform(req[r].url) = "linkedin") =>
            req[r].engine_calls = 0

\* The height a candidate is ranked by: a missing height counts as 0.
RankHeight(c) == IF c.height = NoHeight THEN 0 ELSE c.height

\* C10: the candidates of the metadata path are the engine's formats in
\* descending order of height, a missing height counting as 0 (so last),
\* and candidates of equal height keep the order the engine reported them in.
C10_CandidatesRankedStably ==
    \A r \in Reqs :
        (Done(r) /\ req[r].endpoint = "extract" /\ req[r].engine.kind = "ok") =>
            LET c == req[r].formats
                info == req[r].info_formats
            IN  /\ \A i \in 1..Len(c) :
                    /\ c[i].format_id \in 1..Len(info)
                    /\ c[i].height = info[c[i].format_id].height
                /\ \A i, j \in 1..Len(c) :
                    i < j =>
                        \/ RankHeight(c[i]) > RankHeight(c[j])
                        \/ /\ RankHeight(c[i]) = RankHeight(c[j])
                           /\ c[i].format_id < c[j].format_id
                /\ \A i, j \in 1..Len(c) :
                    (i < j /\ c[i].height = NoHeight) => c[j].height \in {NoHeight, 0}

\* C10's case: a ranking that moved a format forward, kept two candidates of
\* equal rank in reported order, and holds a candidate without a height.
C10_Witness ==
    \E r \in Reqs :
        /\ Done(r) /\ req[r].endpoint = "extract" /\ req[r].engine.kind = "ok"
        /\ LET c == req[r].formats IN
            /\ Len(c) >= 3
            /\ \E i, j \in 1..Len(c) : i < j /\ c[i].format_id > c[j].format_id
            /\ \E i, j \in 1..Len(c) :
                i < j /\ RankHeight(c[i]) = RankHeight(c[j]) /\ c[i].height # c[j].height
            /\ \E i \in 1..Len(c) : c[i].height = NoHeight /\ i < Len(c)

\* The formats the engine reported with a video codec.
VideoCapable(info) == {i \in 1..Len(info) : info[i].vcodec # "none"}

\* The reported formats the response kept.
Retained(c) == {c[i].format_id : i \in 1..Len(c)}

\* C11: the metadata response never holds more than 10 candidates, and when
\* the engine reports more than 10 video formats the 10 kept are the first
\* 10 of the ranked list: every dropped format ranks below every kept one,
\* or equal to it and later in the engine's list.
C11_CapAfterSort ==
    \A r \in Reqs :
        (Done(r) /\ req[r].endpoint = "extract" /\ req[r].engine.kind = "ok") =>
            LET c == req[r].formats
                info == req[r].info_formats
                dropped == VideoCapable(info) \ Retained(c)
            IN  /\ Len(c) <= 10
                /\ Retained(c) \subseteq VideoCapable(info)
                /\ Cardinality(VideoCapable(info)) > 10 =>
                    /\ Len(c) = 10
                    /\ Cardinality(Retained(c)) = 10
                    /\ \A d \in dropped : \A i \in 1..Len(c) :
                        \/ RankHeight(info[d]) < RankHeight(c[i])
                        \/ /\ RankHeight(info[d]) = RankHeight(c[i])
                           /\ d > c[i].format_id

\* C11's case: more than 10 video formats were reported, and the cap kept
\* one reported after the tenth in place of one reported before it.
C11_Witness ==
    \E r \in Reqs :
        /\ Done(r) /\ req[r].endpoint = "extract" /\ req[r].engine.kind = "ok"
        /\ LET c == req[r].formats
               info == req[r].info_formats
           IN  /\ Cardinality(VideoCapable(info)) > 10
               /\ Len(c) = 10
               /\ \E i \in 1..Len(c) : c[i].format_id > 10
               /\ \E d \in VideoCapable(info) \ Retained(c) : d <= 10

\* The ordered table of platforms and their hostname markers.
MarkerTable ==
    << [platform |-> "youtube", markers |-> {M_youtube_com, M_youtu_be}],
       [platform |-> "tiktok", markers |-> {M_tiktok_com}],
       [platform |-> "instagram", markers |-> {M_instagram_com}],
       [platform |-> "facebook", markers |-> {M_facebook_com, M_fb_watch}],
       [platform |-> "twitter", markers |-> {M_twitter_com, M_x_com}],
       [platform |-> "linkedin", markers |-> {M_linkedin_com}] >>

\* s holds marker m at some place, whatever the case of its letters.
HoldsMarker(s, m) ==
    \E i \in 1..(Len(s) - Len(m) + 1) :
        \A k \in 1..Len(m) :
            \/ s[i + k - 1] = m[k]
            \/ /\ s[i + k - 1] \in DOMAIN LowerCase
               /\ LowerCase[s[i + k - 1]] = m[k]

\* The rows of the table of which the URL holds a marker.
MarkedRows(url) ==
    {i \in 1..Len(MarkerTable) : \E m \in MarkerTable[i].markers : HoldsMarker(url, m)}

\* The handlers that classify the URL of their request.
ClassifyingEndpoints == {"extract", "download", "download_photo"}

\* C12: detect_platform answers every URL with exactly one platform tag: the
\* first row of the ordered table of which the URL holds a marker, letter
\* case ignored, and unknown when it holds none.
C12_DetectPlatformFirstMatch ==
    \A r \in Reqs :
        req[r].endpoint \in ClassifyingEndpoints =>
            LET rows == MarkedRows(req[r].url) IN
            /\ req[r].platform \in Platforms
            /\ rows = {} => req[r].platform = "unknown"
            /\ rows # {} =>
                \E i \in rows :
                    /\ \A j \in rows : i <= j
                    /\ req[r].platform = MarkerTable[i].platform

\* C12's case: a URL that holds markers of two platforms, the marker of the
\* later row first and not in lower case, classified as the earlier row.
C12_Witness ==
    \E r \in Reqs :
        /\ req[r].endpoint \in ClassifyingEndpoints
        /\ Cardinality(MarkedRows(req[r].url)) = 2
        /\ req[r].url # Lower(req[r].url)
        /\ ~HoldsMarker(SubSeq(req[r].url, 1, 12), M_youtu_be)
        /\ Contains(Lower(SubSeq(req[r].url, 1, 12)), M_linkedin_com)
        /\ req[r].platform = "youtube"

\* The statuses of the error kinds.
ErrorStatuses == {400, 403, 404, 408, 500}

\* The request failed: it was answered with an error, or its response
\* stream broke off on an exception of the streamer.
Failed(r) == Done(r) /\ (req[r].response.status # 200 \/ req[r].stream = "failed")

\* C13 as stated: every failing request ends with an error response whose
\* status is 400, 403, 404, 408 or 500.
C13_EveryFailureHasErrorStatus ==
    \A r \in Reqs : Failed(r) => req[r].response.status \in ErrorStatuses

\* C13, amended: every request that fails before its response has started
\* ends with one error response whose status is 400, 403, 404, 408 or 500,
\* an exception no handler anticipated included; a request that fails after
\* its 200 response has started streaming ends with that stream cut short.
C13_FailureBeforeStreamHasErrorStatus ==
    \A r \in Reqs :
        Failed(r) =>
            \/ /\ req[r].stream = "none"
               /\ req[r].response.status \in ErrorStatuses
            \/ /\ req[r].stream = "failed"
               /\ req[r].response = OkResponse

\* C13's case: an exception no handler anticipated (the TypeError of the
\* Instagram scrape) was answered by the application-wide handler.
C13_Witness ==
    \E r \in Reqs :
        /\ Failed(r)
        /\ req[r].stream = "none"
        /\ req[r].page.kind = "ok" /\ ~req[r].page.og_video /\ ~req[r].page.og_image
        /\ req[r].endpoint = "extract"
        /\ req[r].platform = "instagram"
        /\ req[r].response = HTTPException(500, "Server error: ", NoneTypeText)

\* C14: a call of cleanup_temp_files never raises to its caller, whatever
\* the state of the workspace (absent, an entry that cannot be deleted, a
\* directory left non-empty), and a second call on the same workspace leaves
\* the filesystem as the first call left it.
C14_CleanupIdempotentNeverRaises ==
    \A r \in Reqs :
        req[r].pc = "cleanup" =>
            /\ ~req[r].cleanup_raised
            /\ req[r].cleanup_calls >= 2 => fs[req[r].temp_dir] = req[r].cleaned

\* C14's case: cleanup was called twice on a workspace that still exists,
\* an entry that could not be deleted left in it.
C14_Witness ==
    \E r \in Reqs :
        /\ req[r].pc = "cleanup"
        /\ req[r].cleanup_calls >= 2
        /\ fs[req[r].temp_dir].exists
        /\ \E f \in fs[req[r].temp_dir].files : ~f.deletable

\* C15: GET /api/health always answers with a status report: healthy when
\* the engine's initialization succeeds, unhealthy when it raises, with a
\* timestamp in both cases, and no exception leaves the handler.
C15_HealthAlwaysReports ==
    \A r \in Reqs :
        req[r].endpoint = "health" =>
            /\ Done(r)
            /\ req[r].response = OkResponse
            /\ req[r].health.timestamp \in Clock
            /\ req[r].engine.kind = "ok" => req[r].health.status = "healthy"
            /\ req[r].engine.kind # "ok" => req[r].health.status = "unhealthy"

\* C15's case: the engine's initialization raised, with a message the
\* application-wide handler would have answered with an error status, and
\* the health report was returned.
C15_Witness ==
    \E r \in Reqs :
        /\ req[r].endpoint = "health"
        /\ Done(r)
        /\ req[r].engine.kind = "Exception"
        /\ global_exception_handler(req[r].engine.msg).status = 408
        /\ req[r].health.status = "unhealthy"

\* A step of request s is possible: the server accepts it, or its handler,
\* its response stream or its background task goes on.
CanProgress(s) ==
    ENABLED (\/ extract_media(s, ConcUrls)
             \/ get_instagram_info(s, ConcPages)
             \/ download_media_streaming(s, ConcUrls)
             \/ download_photo_streaming(s, ConcUrls)
             \/ download_photo_fallback(s, ConcPages)
             \/ download_photo_image(s, ConcImages)
             \/ file_streamer(s)
             \/ background_cleanup(s))

\* C16: while the engine call of one request is in progress, a concurrent
\* sibling request that has work to do (to be accepted, or to go on after an
\* await or with its stream) can take its step.
C16_EngineCallLeavesLoopFree ==
    \A r, s \in Reqs :
        (r # s /\ req[r].pc = "engine" /\ req[s].pc \notin {"engine", "done"}) =>
            CanProgress(s)

\* The file the response streams is in the request's workspace.
FileInWorkspace(r) ==
    /\ WorkspaceExists(r)
    /\ \E f \in fs[req[r].temp_dir].files : f.name = req[r].file

\* The response stream of the request has ended: consumed to its end, left
\* by the client, or broken off by the streamer.
StreamEnded(r) == req[r].stream \in {"complete", "disconnected", "failed"}

\* C17: on the success path of a download the workspace and its file are
\* there for as long as the stream has bytes to emit, and once the stream
\* has ended, by a client disconnect or a failure of the streamer as well,
\* the deferred cleanup is run before the request concludes.
C17_DeferredCleanupAfterStreamNeverSkipped ==
    \A r \in Reqs :
        /\ (req[r].stream = "open" /\ req[r].pos < req[r].content_length) =>
                FileInWorkspace(r)
        /\ (req[r].cleanup_calls > 0 /\ req[r].stream # "none") => StreamEnded(r)
        /\ (Done(r) /\ StreamEnded(r)) => req[r].cleanup_calls = 1

\* The request holds a workspace and has not concluded.
Live(r) == req[r].temp_dir # NoDir /\ ~Done(r)

\* Request r took the step.
StepOf(r) == req'[r] # req[r] /\ \A s \in Reqs \ {r} : req'[s] = req[s]

\* C18: in every interleaving of concurrent requests, a request creates one
\* workspace, a directory that did not exist and that no other live request
\* holds, and keeps it; a directory changes only by a step of the request
\* that holds it; a request's stream emits bytes of the file in its own
\* workspace only; and download_progress is never written.
C18_WorkspacesIsolated ==
    [][/\ \A r \in Reqs :
            /\ req[r].temp_dir # NoDir => req'[r].temp_dir = req[r].temp_dir
            /\ (req[r].temp_dir = NoDir /\ req'[r].temp_dir # NoDir) =>
                    /\ ~fs[req'[r].temp_dir].exists
                    /\ fs'[req'[r].temp_dir] = EmptyDir
                    /\ \A s \in Reqs \ {r} : Live(s) => req[s].temp_dir # req'[r].temp_dir
            /\ Len(req'[r].chunks) > Len(req[r].chunks) =>
                    /\ FileInWorkspace(r)
                    /\ req'[r].pos <= stored_file(fs, req[r]).size
            /\ (req'[r].engine_calls > 0
                    /\ req'[r].endpoint \in DownloadEndpoints) => req'[r].temp_dir # NoDir
       /\ \A r, s \in Reqs :
            (r # s /\ Live(r)' /\ Live(s)') => req'[r].temp_dir # req'[s].temp_dir
       /\ \A d \in DirNames :
            fs'[d] # fs[d] => \E r \in Reqs : StepOf(r) /\ req'[r].temp_dir = d
       /\ download_progress' = download_progress
      ]_vars

\* C18's case: two downloads ran side by side; one has streamed to its end
\* and its cleanup removed its workspace, while the other, in a workspace of
\* its own, is in the middle of its stream with its file in place.
C18_Witness ==
    \E r, s \in Reqs :
        /\ r # s
        /\ Done(r) /\ req[r].stream = "complete" /\ req[r].cleanup_calls = 1
        /\ ~WorkspaceExists(r)
        /\ req[s].pc = "streaming" /\ req[s].pos > 0 /\ req[s].pos < req[s].content_length
        /\ req[s].temp_dir # req[r].temp_dir
        /\ FileInWorkspace(s)

\* C19: a response of status 500 carries a generic message: none of the
\* text of the exception that caused it is in the body, so two requests
\* that fail on exceptions of different messages get the same body.
C19_InternalErrorBodyGeneric ==
    \A r \in Reqs :
        (Done(r) /\ req[r].response.status = 500) => req[r].response.raw = NoText

\* The metadata request was answered with the engine's formats.
EngineCandidates(r) ==
    /\ Done(r)
    /\ req[r].endpoint = "extract"
    /\ req[r].engine.kind = "ok"
    /\ req[r].response = OkResponse

\* C20 as stated: every format the engine reports without a video codec is
\* left out of the candidates, and every candidate has a video codec.
C20_OnlyFormatsWithVideoCodec ==
    \A r \in Reqs :
        EngineCandidates(r) =>
            LET c == req[r].formats
                info == req[r].info_formats
            IN  /\ Retained(c) \subseteq 1..Len(info)
                /\ \A i \in 1..Len(info) :
                    info[i].vcodec \in {"none", "missing"} => i \notin Retained(c)

\* C20, amended: every format the engine marks as carrying no video (vcodec
\* 'none') is left out of the candidates and no candidate is so marked; a
\* format whose vcodec the engine does not report is kept as a candidate
\* (while the cap of 10 leaves room).
C20_NoFormatMarkedNoVideo ==
    \A r \in Reqs :
        EngineCandidates(r) =>
            LET c == req[r].formats
                info == req[r].info_formats
            IN  /\ Retained(c) \subseteq 1..Len(info)
                /\ \A i \in 1..Len(info) : info[i].vcodec = "none" => i \notin Retained(c)
                /\ Len(info) <= 10 =>
                    \A i \in 1..Len(info) : info[i].vcodec # "none" => i \in Retained(c)

\* C20's case: the engine reported a format marked 'none', one without a
\* vcodec and one with a codec; the first was left out, the two others are
\* the candidates.
C20_Witness ==
    \E r \in Reqs :
        /\ EngineCandidates(r)
        /\ LET c == req[r].formats
               info == req[r].info_formats
           IN  /\ \E i \in 1..Len(info) : info[i].vcodec = "none"
               /\ \E i \in Retained(c) : info[i].vcodec = "missing"
               /\ \E i \in Retained(c) : info[i].vcodec = "avc1"
               /\ Len(c) = 2

\* The download responses whose headers have been built: the handler
\* returned its StreamingResponse.
Streamed(r) == req[r].endpoint \in DownloadEndpoints /\ req[r].stream # "none"

\* C21: the title in the Content-Disposition filename holds only
\* alphanumerics, spaces, hyphens and underscores, has no surrounding
\* whitespace, and is never empty: a title that sanitization empties is
\* replaced by a generic name.
C21_FilenameTitleSafeAndNamed ==
    \A r \in Reqs :
        Streamed(r) =>
            LET title == req[r].title
            IN  /\ \A i \in 1..Len(title) : KeepChar(title[i])
                /\ strip(title) = title
                /\ title # NoText

\* C21, the part the handlers keep: the filename's title holds only the
\* retained characters and has no surrounding whitespace.
C21_FilenameTitleSafe ==
    \A r \in Reqs :
        Streamed(r) =>
            LET title == req[r].title
            IN  /\ \A i \in 1..Len(title) : KeepChar(title[i])
                /\ strip(title) = title

RECURSIVE emitted(_)
\* The number of bytes in a sequence of chunks.
emitted(chunks) ==
    IF chunks = <<>> THEN 0 ELSE chunks[1].size + emitted(Tail(chunks))

\* The chunks are consecutive pieces of the file from its first byte on:
\* each starts where the one before ended.
Sequential(chunks) ==
    \A i \in 1..Len(chunks) :
        chunks[i].offset = emitted(SubSeq(chunks, 1, i - 1))

\* C22: the streamer emits the located file in one sequential pass: every
\* chunk has at most 8192 bytes, none is empty and only the last may be
\* shorter than 8192; the chunks are consecutive pieces of the file from its
\* first byte, and when the stream runs to completion they cover the whole
\* file and the advertised Content-Length is the number of bytes emitted.
C22_StreamIsFileInChunks ==
    \A r \in Reqs :
        Streamed(r) =>
            LET chunks == req[r].chunks
            IN  /\ \A i \in 1..Len(chunks) :
                    /\ chunks[i].size > 0
                    /\ chunks[i].size <= 8192
                    /\ i < Len(chunks) => chunks[i].size = 8192
                /\ Sequential(chunks)
                /\ emitted(chunks) <= req[r].content_length
                /\ req[r].stream = "complete" =>
                    /\ emitted(chunks) = req[r].content_length
                    /\ req[r].pc = "background" =>
                        emitted(chunks) = stored_file(fs, req[r]).size

\* C22's case: a file of 8193 bytes was streamed to completion in two
\* chunks, 8192 bytes and then 1 byte, under Content-Length 8193.
C22_Witness ==
    \E r \in Reqs :
        /\ Streamed(r)
        /\ req[r].stream = "complete"
        /\ req[r].content_length = 8193
        /\ Len(req[r].chunks) = 2
        /\ req[r].chunks[2] = [offset |-> 8192, size |-> 1]

\* The download handler of request r has created its workspace.
InHandlerWithWorkspace(r) ==
    /\ req[r].endpoint \in DownloadEndpoints
    /\ req[r].temp_dir # NoDir

\* The handler has ended, by a return or by a raise.
HandlerEnded(r) == req[r].pc \in {"streaming", "background", "done"}

\* The response's background task has run.
DeferredRan(r) == Done(r) /\ req[r].stream \in {"complete", "disconnected"}

\* The calls of cleanup_temp_files the handler made itself, in an except
\* branch: all the calls but the background task's.
ImmediateCleanups(r) == req[r].cleanup_calls - (IF DeferredRan(r) THEN 1 ELSE 0)

\* The cleanups the handler scheduled with background_tasks.add_task.
ScheduledCleanups(r) == IF req[r].background THEN 1 ELSE 0

====
